---- MODULE Spec2Model ----
(***************************************************************************)
(* Model of src/index.js: the meme-coin trading bot.                       *)
(*                                                                         *)
(* State: the module-level Map trackedCoins and counter dailyOperations,   *)
(* and, for every invocation of runDailyOperations that is in flight, the  *)
(* await it is suspended at together with its live locals.  JavaScript is  *)
(* single threaded: the code between two awaits runs atomically, so there  *)
(* is one action per resumption point.                                     *)
(*                                                                         *)
(* Prices are in units of 0.001 USD (0.01 USD = 10), market caps in USD,   *)
(* amounts in units of 0.1 SOL.                                            *)
(***************************************************************************)
EXTENDS Integers, Sequences, FiniteSets, TLC

\* ------------------------------------------------------------------ bounds
\* Invocations of runDailyOperations that may be in flight at once.
MaxRuns == 2
\* Posts returned by one search of the feed.
MaxPosts == 2

\* ----------------------------------------------------- program constants
MAX_DAILY_OPERATIONS == 5
TARGET_MULTIPLIER_MIN == 2
TARGET_MULTIPLIER_MAX == 5
MARKET_CAP_THRESHOLD == 5000
\* the literal 0.01 of lines 127 and 192, in units of 0.001 USD
PriceCeiling == 10
\* the literal 0.1 (SOL) of line 193, in units of 0.1 SOL
AmountInSol == 1

Runs == 1..MaxRuns

\* ------------------------------------------------------------------ text
\* A text is a sequence of one-character strings.
UpperLetters == {"A", "B", "R", "U", "G"}

toLowerCase(ch) ==
  CASE ch = "A" -> "a"
    [] ch = "B" -> "b"
    [] ch = "R" -> "r"
    [] ch = "U" -> "u"
    [] ch = "G" -> "g"
    [] ch = "S" -> "s"
    [] ch = "C" -> "c"
    [] ch = "M" -> "m"
    [] OTHER -> ch

LowerText(t) == [i \in 1..Len(t) |-> toLowerCase(t[i])]

\* String.prototype.includes: needle occurs as a contiguous substring.
includes(t, needle) ==
  \E i \in 1..(Len(t) - Len(needle) + 1) :
     \A j \in 1..Len(needle) : t[i + j - 1] = needle[j]

\* Length of the run of uppercase letters of t that starts at position i.
RECURSIVE UpperRun(_, _)
UpperRun(t, i) ==
  IF i > Len(t) \/ t[i] \notin UpperLetters THEN 0 ELSE 1 + UpperRun(t, i + 1)

\* Start positions of a match of /\$[A-Z]+/ in t.
MatchStarts(t) == {i \in 1..Len(t) : t[i] = "$" /\ UpperRun(t, i + 1) >= 1}

\* tweet.text.match(/\$[A-Z]+/): the first (leftmost, greedy) match, or <<>>
\* when there is none (null).
coinMatch(t) ==
  IF MatchStarts(t) = {} THEN <<>>
  ELSE LET i == CHOOSE k \in MatchStarts(t) : \A m \in MatchStarts(t) : k <= m
       IN  SubSeq(t, i, i + UpperRun(t, i + 1))

\* coin.replace('$', ''): removes the first "$".
replaceDollar(t) ==
  IF \E i \in 1..Len(t) : t[i] = "$"
  THEN LET i == CHOOSE k \in 1..Len(t) :
                  t[k] = "$" /\ \A m \in 1..(k - 1) : t[m] # "$"
       IN  SubSeq(t, 1, i - 1) \o SubSeq(t, i + 1, Len(t))
  ELSE t

\* ---------------------------------------------------------------- ranker
\* A post of the feed: its text and the score the sentiment analyzer gives it.
TextA     == <<"$", "A">>
TextB     == <<"$", "B">>
TextScam  == <<"$", "A", " ", "S", "c", "a", "m">>
TextRug   == <<"$", "R", "U", "G">>
TextLower == <<"$", "a", " ", "$", "B", "A">>
TextNone  == <<"m", "o", "o", "n">>

Texts == {TextA, TextB, TextScam, TextRug, TextLower, TextNone}
Sentiments == {-1, 0, 1, 2}
Posts == [text : Texts, sentiment : Sentiments]

\* The posts a search of the cycle may return.
CyclePosts ==
  { [text |-> TextA, sentiment |-> 1], [text |-> TextB, sentiment |-> 1],
    [text |-> TextB, sentiment |-> 2], [text |-> TextA, sentiment |-> -1],
    [text |-> TextScam, sentiment |-> 2] }

SeqsUpTo(S, n) == UNION {[1..k -> S] : k \in 0..n}

\* The test of line 70 without toLowerCase
suspiciousCaseSensitive(tweet) ==
  \/ tweet.sentiment < 0
  \/ includes(tweet.text, <<"s", "c", "a", "m">>)
  \/ includes(tweet.text, <<"r", "u", "g">>)

\* The test of line 70: the tweet is skipped.
suspicious(tweet) ==
  \/ tweet.sentiment < 0
  \/ includes(LowerText(tweet.text), <<"s", "c", "a", "m">>)
  \/ includes(LowerText(tweet.text), <<"r", "u", "g">>)

\* The loop of lines 65-81.
RECURSIVE potentialCoins(_)
potentialCoins(tweets) ==
  IF tweets = <<>> THEN <<>>
  ELSE LET tweet == Head(tweets)
           rest  == potentialCoins(Tail(tweets))
       IN  IF suspicious(tweet) THEN rest
           ELSE IF coinMatch(tweet.text) = <<>> THEN rest
           ELSE <<[coin |-> coinMatch(tweet.text),
                   sentiment |-> tweet.sentiment,
                   tweet |-> tweet.text]>> \o rest

\* Array.prototype.sort with (a, b) => b.sentiment - a.sentiment: stable,
\* descending by sentiment.  Insertion of x behind every element that does
\* not sort after it.
RECURSIVE insertSortedUnstable(_, _)
RECURSIVE insertSorted(_, _)
\* insertion of x in front of the elements that compare equal to it
insertSortedUnstable(sorted, x) ==
  IF sorted = <<>> THEN <<x>>
  ELSE IF Head(sorted).sentiment > x.sentiment
       THEN <<Head(sorted)>> \o insertSortedUnstable(Tail(sorted), x)
       ELSE <<x>> \o sorted

insertSorted(sorted, x) ==
  IF sorted = <<>> THEN <<x>>
  ELSE IF Head(sorted).sentiment >= x.sentiment
       THEN <<Head(sorted)>> \o insertSorted(Tail(sorted), x)
       ELSE <<x>> \o sorted

RECURSIVE sortBySentiment(_)
sortBySentiment(cs) ==
  IF cs = <<>> THEN <<>>
  ELSE insertSorted(sortBySentiment(SubSeq(cs, 1, Len(cs) - 1)), cs[Len(cs)])

\* analyzeTweets when the search succeeds.
analyzeTweets(tweets) == sortBySentiment(potentialCoins(tweets))

\* What `await analyzeTweets()` can deliver: the ranking of some feed, or []
\* from the catch block when the search throws.
AnalyzeResults ==
  {analyzeTweets(tweets) : tweets \in SeqsUpTo(CyclePosts, MaxPosts)} \cup {<<>>}

\* ----------------------------------------------------------- market data
NoData == [none |-> TRUE]
Prices == {0, 5, 10, 20}
MarketCaps == {0, 2500, 7500, 7501}
\* What `await getCoinData(coin)` can deliver: { price, marketCap } or null.
CoinData == [price : Prices, marketCap : MarketCaps] \cup {NoData}

\* --------------------------------------------------------- the Map object
\* trackedCoins is a sequence of entries in insertion order, keys unique.
Keys(m) == {m[i].coin : i \in 1..Len(m)}
has(m, coin) == coin \in Keys(m)
indexOf(m, coin) == CHOOSE i \in 1..Len(m) : m[i].coin = coin
get(m, coin) == m[indexOf(m, coin)]
\* Map.prototype.set: an existing key keeps its place and gets the new value.
set(m, coin, v) ==
  LET e == [coin |-> coin, buyPrice |-> v.buyPrice,
            targetMultiplier |-> v.targetMultiplier, amount |-> v.amount]
  IN  IF has(m, coin) THEN [m EXCEPT ![indexOf(m, coin)] = e]
      ELSE Append(m, e)
\* delete leaving the entry in place
deleteKeepsEntry(m, coin) == m

\* Map.prototype.delete
delete(m, coin) ==
  IF has(m, coin)
  THEN SubSeq(m, 1, indexOf(m, coin) - 1) \o SubSeq(m, indexOf(m, coin) + 1, Len(m))
  ELSE m

\* -------------------------------------------------------------- decisions
\* the limit of lines 171 and 212
Limit == MAX_DAILY_OPERATIONS * 2
\* MARKET_CAP_THRESHOLD * 0.5 and MARKET_CAP_THRESHOLD * 1.5
CapLow  == MARKET_CAP_THRESHOLD \div 2
CapHigh == (MARKET_CAP_THRESHOLD * 3) \div 2

\* limitReached with the comparison off by one
limitReachedStrict(ops) == ops > Limit

\* line 171
limitReached(ops) == ops >= Limit

\* line 192: the admission test of runDailyOperations on its own snapshot
admits(data) ==
  /\ data.price > 0
  /\ data.price < PriceCeiling
  /\ data.marketCap >= CapLow
  /\ data.marketCap <= CapHigh

\* line 121: buyCoin refuses the market cap of its own snapshot
capRejected(data) == data.marketCap > CapHigh \/ data.marketCap < CapLow

\* line 127: buyCoin refuses the price of its own snapshot
priceRejected(data) == data.price > PriceCeiling

\* lines 112-137: buyCoin returns true on the snapshot it fetched
buyAccepted(data) ==
  /\ data # NoData
  /\ ~capRejected(data)
  /\ ~priceRejected(data)

\* newPosition taking the upper multiplier
newPositionMaxMultiplier(data, amountInSol) ==
  [buyPrice |-> data.price, targetMultiplier |-> TARGET_MULTIPLIER_MAX,
   amount |-> amountInSol]

\* line 135: the value buyCoin stores
newPosition(data, amountInSol) ==
  [buyPrice |-> data.price, targetMultiplier |-> TARGET_MULTIPLIER_MIN,
   amount |-> amountInSol]

\* targetReached with a strict comparison
targetReachedStrict(currentPrice, entry) ==
  currentPrice > entry.buyPrice * entry.targetMultiplier

\* line 154
targetReached(currentPrice, entry) ==
  currentPrice >= entry.buyPrice * entry.targetMultiplier

\* sellAccepted without the return of line 149: missing data sells
sellAcceptedWithoutData(m, coin, data) ==
  /\ has(m, coin)
  /\ data = NoData \/ targetReached(data.price, get(m, coin))

\* lines 148-161: sellCoin returns true.  Without data it returns at line 149;
\* without an entry the destructuring of line 152 throws and the catch block
\* returns false.
sellAccepted(m, coin, data) ==
  /\ data # NoData
  /\ has(m, coin)
  /\ targetReached(data.price, get(m, coin))

\* counted with the increment ahead of the checks: every attempt counts
countedAlways(ops, ok) == ops + 1

\* lines 136 and 158: dailyOperations++ sits on the path that returns true
counted(ops, ok) == IF ok THEN ops + 1 ELSE ops

\* ------------------------------------------------------------------ state
VARIABLES
  trackedCoins,     \* the Map of line 52, entries in insertion order
  dailyOperations,  \* the counter of line 53
  pc,               \* per invocation: the await it is suspended at, "idle", or
                    \* the return statement it is executing
  topCoin,          \* per invocation: topCoin.coin (line 184)
  sellKey,          \* per invocation: `coin` of the loop of line 197
  iter,             \* per invocation: entries the Map iterator of line 197 has passed
  coinData,         \* per invocation: `coinData` of the buyCoin or sellCoin call
                    \* that is returning (lines 112, 148)
  entry,            \* per invocation: the entry sellCoin read at line 152
  result,           \* per invocation: the value buyCoin or sellCoin is returning
  startKeys,        \* history: keys tracked when the invocation started
  evaluated,        \* history: keys sellCoin has run for in the invocation
  bought,           \* history: keys buyCoin has stored in the invocation, in order
  numBuys,          \* history: times buyCoin returned true (line 137)
  numSells,         \* history: times sellCoin returned true (line 159)
  tweets,           \* the posts the search of line 62 delivers to analyzeTweets
  ranked,           \* the value analyzeTweets returned for them
  rankerPc,         \* analyzeTweets on its own: "off", "searching", "ranked", "failed"
  notify            \* the sendMessage promises nobody awaits: "none" unsettled,
                    \* "pending", or "unhandled" (a rejection ended the process)

vars == <<trackedCoins, dailyOperations, pc, topCoin, sellKey, iter, coinData,
          entry, result, startKeys, evaluated, bought, numBuys, numSells,
          tweets, ranked, rankerPc, notify>>

\* The state of one decision cycle, and the rest.
cycleVars == <<trackedCoins, dailyOperations, pc, topCoin, sellKey, iter,
               coinData, entry, result, startKeys, evaluated, bought, numBuys,
               numSells>>
rankerVars == <<tweets, ranked, rankerPc>>

NoCoin == <<>>
NoEntry == [none |-> TRUE]

\* The return statements of runDailyOperations: line 173, line 180, line 186
\* and the end of the function after the loop.
Returned == {"returnLimit", "returnEmpty", "returnNoData", "returnSwept"}

\* An invocation that is running, not suspended at an await: its buyCoin or
\* sellCoin call is returning, or it is returning itself.
Running == Returned \cup {"buyCoinReturn", "sellCoinReturn"}

Init ==
  /\ trackedCoins = <<>>
  /\ dailyOperations = 0
  /\ pc = [r \in Runs |-> "idle"]
  /\ topCoin = [r \in Runs |-> NoCoin]
  /\ sellKey = [r \in Runs |-> NoCoin]
  /\ iter = [r \in Runs |-> 0]
  /\ coinData = [r \in Runs |-> NoData]
  /\ entry = [r \in Runs |-> NoEntry]
  /\ result = [r \in Runs |-> FALSE]
  /\ startKeys = [r \in Runs |-> {}]
  /\ evaluated = [r \in Runs |-> {}]
  /\ bought = [r \in Runs |-> <<>>]
  /\ numBuys = 0
  /\ numSells = 0
  /\ tweets = <<>>
  /\ ranked = <<>>
  /\ rankerPc = "off"
  /\ notify = "none"

\* The code between two awaits runs to completion: a continuation is resumed
\* only when no invocation is running, and only while the process lives.
NoneRunning == notify # "unhandled" /\ \A q \in Runs : pc[q] \notin Running

\* sweepNext leaving the loop one entry early
sweepNextShort(m, i) ==
  IF i + 1 < Len(m)
  THEN [pc |-> "awaitSellData", coin |-> m[i + 1].coin, iter |-> i + 1]
  ELSE [pc |-> "returnSwept", coin |-> NoCoin, iter |-> 0]

\* The loop head of line 197 with the iterator having passed i entries of m:
\* the next entry is visited and sellCoin suspends at its getCoinData, or the
\* iterator is exhausted and runDailyOperations returns.
sweepNext(m, i) ==
  IF i < Len(m)
  THEN [pc |-> "awaitSellData", coin |-> m[i + 1].coin, iter |-> i + 1]
  ELSE [pc |-> "returnSwept", coin |-> NoCoin, iter |-> 0]

\* Lines 170-177: an invocation starts (the call of line 207 or a tick of the
\* timer of line 206); it returns at once at the limit, else suspends in
\* analyzeTweets.
runDailyOperations(r) ==
  /\ NoneRunning
  /\ pc[r] = "idle"
  /\ startKeys' = [startKeys EXCEPT ![r] = Keys(trackedCoins)]
  /\ pc' = [pc EXCEPT ![r] = IF limitReached(dailyOperations)
                             THEN "returnLimit" ELSE "awaitTweets"]
  /\ UNCHANGED <<trackedCoins, dailyOperations, topCoin, sellKey, iter,
                 coinData, entry, result, evaluated, bought, numBuys, numSells>>
  /\ UNCHANGED <<rankerVars, notify>>

\* Lines 177-185: analyzeTweets delivers; no candidate returns, else the top
\* candidate is looked up.
analyzeTweetsReturns(r) ==
  /\ NoneRunning
  /\ pc[r] = "awaitTweets"
  /\ \E coins \in AnalyzeResults :
       IF Len(coins) = 0
       THEN /\ pc' = [pc EXCEPT ![r] = "returnEmpty"]
            /\ topCoin' = topCoin
            /\ notify' = "pending"
       ELSE /\ pc' = [pc EXCEPT ![r] = "awaitTopData"]
            /\ topCoin' = [topCoin EXCEPT ![r] = coins[1].coin]
            /\ notify' = notify
  /\ UNCHANGED <<trackedCoins, dailyOperations, sellKey, iter, coinData, entry,
                 result, startKeys, evaluated, bought, numBuys, numSells>>
  /\ UNCHANGED rankerVars

\* Lines 186-197: where runDailyOperations goes once the lookup of the top
\* candidate has delivered data, with m the Map at that moment: without data
\* it returns (line 186), with admitted data it calls buyCoin, which suspends
\* in its own getCoinData (line 193), otherwise it reaches the loop head of
\* line 197.
afterLookup(m, data) ==
  IF data = NoData
  THEN [pc |-> "returnNoData", coin |-> NoCoin, iter |-> 0]
  ELSE IF admits(data)
  THEN [pc |-> "awaitBuyData", coin |-> NoCoin, iter |-> 0]
  ELSE sweepNext(m, 0)

\* Lines 185-197: the lookup of the top candidate delivers; the found data are
\* announced (line 189) and the invocation continues as afterLookup says.
topDataReturns(r) ==
  /\ NoneRunning
  /\ pc[r] = "awaitTopData"
  /\ \E data \in CoinData :
       LET nxt == afterLookup(trackedCoins, data)
       IN  /\ pc' = [pc EXCEPT ![r] = nxt.pc]
           /\ sellKey' = [sellKey EXCEPT ![r] = nxt.coin]
           /\ iter' = [iter EXCEPT ![r] = nxt.iter]
           /\ topCoin' = IF nxt.pc = "awaitBuyData"
                         THEN topCoin ELSE [topCoin EXCEPT ![r] = NoCoin]
           /\ notify' = IF data = NoData THEN notify ELSE "pending"
  /\ UNCHANGED <<trackedCoins, dailyOperations, coinData, entry, result,
                 startKeys, evaluated, bought, numBuys, numSells>>
  /\ UNCHANGED rankerVars

\* Lines 110-143: buyCoin's getCoinData delivers and buyCoin runs to its
\* return: it stores the position and counts the operation, or refuses.
buyCoin(r) ==
  /\ NoneRunning
  /\ pc[r] = "awaitBuyData"
  /\ \E data \in CoinData :
       LET coin == replaceDollar(topCoin[r])
           ok   == buyAccepted(data)
       IN  /\ trackedCoins' = IF ok
                              THEN set(trackedCoins, coin, newPosition(data, AmountInSol))
                              ELSE trackedCoins
           /\ dailyOperations' = counted(dailyOperations, ok)
           /\ numBuys' = IF ok THEN numBuys + 1 ELSE numBuys
           /\ bought' = IF ok THEN [bought EXCEPT ![r] = Append(@, coin)] ELSE bought
           /\ coinData' = [coinData EXCEPT ![r] = data]
           /\ result' = [result EXCEPT ![r] = ok]
           /\ pc' = [pc EXCEPT ![r] = "buyCoinReturn"]
  /\ notify' = "pending"
  /\ UNCHANGED <<topCoin, sellKey, iter, entry, startKeys, evaluated, numSells>>
  /\ UNCHANGED rankerVars

\* sweepStarts calling buyCoin once more after a buy
sweepStartsBuysAgain(r) ==
  /\ pc[r] = "buyCoinReturn"
  /\ LET nxt == IF result[r] /\ Len(bought[r]) < 2
                THEN [pc |-> "awaitBuyData", coin |-> NoCoin, iter |-> 0]
                ELSE sweepNext(trackedCoins, 0)
     IN  /\ pc' = [pc EXCEPT ![r] = nxt.pc]
         /\ sellKey' = [sellKey EXCEPT ![r] = nxt.coin]
         /\ iter' = [iter EXCEPT ![r] = nxt.iter]
         /\ topCoin' = IF nxt.pc = "awaitBuyData"
                       THEN topCoin ELSE [topCoin EXCEPT ![r] = NoCoin]
  /\ coinData' = [coinData EXCEPT ![r] = NoData]
  /\ result' = [result EXCEPT ![r] = FALSE]
  /\ UNCHANGED <<trackedCoins, dailyOperations, entry, startKeys, evaluated,
                 bought, numBuys, numSells>>
  /\ UNCHANGED <<rankerVars, notify>>

\* Lines 193-197: buyCoin has returned; the sweep starts on the Map as it is now.
sweepStarts(r) ==
  /\ pc[r] = "buyCoinReturn"
  /\ LET nxt == sweepNext(trackedCoins, 0)
     IN  /\ pc' = [pc EXCEPT ![r] = nxt.pc]
         /\ sellKey' = [sellKey EXCEPT ![r] = nxt.coin]
         /\ iter' = [iter EXCEPT ![r] = nxt.iter]
  /\ topCoin' = [topCoin EXCEPT ![r] = NoCoin]
  /\ coinData' = [coinData EXCEPT ![r] = NoData]
  /\ result' = [result EXCEPT ![r] = FALSE]
  /\ UNCHANGED <<trackedCoins, dailyOperations, entry, startKeys, evaluated,
                 bought, numBuys, numSells>>
  /\ UNCHANGED <<rankerVars, notify>>

\* Lines 146-167: sellCoin's getCoinData delivers and sellCoin runs to its
\* return: it deletes the position and counts the operation, or holds.  A
\* deletion moves every live iterator that had passed the deleted entry.
sellCoin(r) ==
  /\ NoneRunning
  /\ pc[r] = "awaitSellData"
  /\ \E data \in CoinData :
       LET coin == sellKey[r]
           ok   == sellAccepted(trackedCoins, coin, data)
       IN  /\ trackedCoins' = IF ok THEN delete(trackedCoins, coin) ELSE trackedCoins
           /\ iter' = IF ok
                      THEN [q \in Runs |->
                              IF iter[q] >= indexOf(trackedCoins, coin)
                              THEN iter[q] - 1 ELSE iter[q]]
                      ELSE iter
           /\ dailyOperations' = counted(dailyOperations, ok)
           /\ numSells' = IF ok THEN numSells + 1 ELSE numSells
           /\ evaluated' = [evaluated EXCEPT ![r] = @ \cup {coin}]
           /\ coinData' = [coinData EXCEPT ![r] = data]
           /\ entry' = [entry EXCEPT ![r] =
                          IF data # NoData /\ has(trackedCoins, coin)
                          THEN get(trackedCoins, coin) ELSE NoEntry]
           /\ result' = [result EXCEPT ![r] = ok]
           /\ pc' = [pc EXCEPT ![r] = "sellCoinReturn"]
           /\ notify' = IF ok \/ (data # NoData /\ ~has(trackedCoins, coin))
                        THEN "pending" ELSE notify
  /\ UNCHANGED <<topCoin, sellKey, startKeys, bought, numBuys>>
  /\ UNCHANGED rankerVars

\* Lines 197-202: sellCoin has returned; the loop goes on to the next entry of
\* the Map, or runDailyOperations returns.
sweepContinues(r) ==
  /\ pc[r] = "sellCoinReturn"
  /\ LET nxt == sweepNext(trackedCoins, iter[r])
     IN  /\ pc' = [pc EXCEPT ![r] = nxt.pc]
         /\ sellKey' = [sellKey EXCEPT ![r] = nxt.coin]
         /\ iter' = [iter EXCEPT ![r] = nxt.iter]
  /\ coinData' = [coinData EXCEPT ![r] = NoData]
  /\ entry' = [entry EXCEPT ![r] = NoEntry]
  /\ result' = [result EXCEPT ![r] = FALSE]
  /\ UNCHANGED <<trackedCoins, dailyOperations, topCoin, startKeys, evaluated,
                 bought, numBuys, numSells>>
  /\ UNCHANGED <<rankerVars, notify>>

\* The return statement completes: the invocation is over and its locals are gone.
returns(r) ==
  /\ pc[r] \in Returned
  /\ pc' = [pc EXCEPT ![r] = "idle"]
  /\ startKeys' = [startKeys EXCEPT ![r] = {}]
  /\ evaluated' = [evaluated EXCEPT ![r] = {}]
  /\ bought' = [bought EXCEPT ![r] = <<>>]
  /\ UNCHANGED <<trackedCoins, dailyOperations, topCoin, sellKey, iter,
                 coinData, entry, result, numBuys, numSells>>
  /\ UNCHANGED <<rankerVars, notify>>

\* The continuations of an invocation, from one await to the next.
Step(r) ==
  \/ analyzeTweetsReturns(r)
  \/ topDataReturns(r)
  \/ buyCoin(r)
  \/ sweepStarts(r)
  \/ sellCoin(r)
  \/ sweepContinues(r)

\* An invocation takes the first free slot of Runs (the slots only name the
\* invocations in flight).
freeSlot(r) == pc[r] = "idle" /\ \A q \in 1..(r - 1) : pc[q] # "idle"

\* The timer of line 206 fires every 4 hours: each invocation starts after the
\* earlier ones have returned.
Next ==
  \E r \in Runs :
    \/ (\A q \in Runs : pc[q] = "idle") /\ freeSlot(r) /\ runDailyOperations(r)
    \/ Step(r)
    \/ returns(r)

Spec == Init /\ [][Next]_vars

\* Nothing in the code keeps a tick from starting an invocation while earlier
\* ones are still suspended at an await.  Overlap is explored over MaxRuns
\* invocations: each slot carries one invocation and stays "done" after it.
finishes(r) ==
  /\ pc[r] \in Returned
  /\ pc' = [pc EXCEPT ![r] = "done"]
  /\ startKeys' = [startKeys EXCEPT ![r] = {}]
  /\ evaluated' = [evaluated EXCEPT ![r] = {}]
  /\ bought' = [bought EXCEPT ![r] = <<>>]
  /\ UNCHANGED <<trackedCoins, dailyOperations, topCoin, sellKey, iter,
                 coinData, entry, result, numBuys, numSells>>
  /\ UNCHANGED <<rankerVars, notify>>

\* States between invocations from which the overlapping invocations start:
\* the state after load, and a state of Spec one operation short of the limit
\* with one tracked position (five buys at 0.005 and four sells behind it).
InitOverlap ==
  /\ \/ /\ trackedCoins = <<>>
        /\ dailyOperations = 0
        /\ numBuys = 0
        /\ numSells = 0
     \/ /\ trackedCoins = <<[coin |-> <<"A">>, buyPrice |-> 5,
                            targetMultiplier |-> TARGET_MULTIPLIER_MIN,
                            amount |-> AmountInSol]>>
        /\ dailyOperations = Limit - 1
        /\ numBuys = MAX_DAILY_OPERATIONS
        /\ numSells = MAX_DAILY_OPERATIONS - 1
  /\ pc = [r \in Runs |-> "idle"]
  /\ topCoin = [r \in Runs |-> NoCoin]
  /\ sellKey = [r \in Runs |-> NoCoin]
  /\ iter = [r \in Runs |-> 0]
  /\ coinData = [r \in Runs |-> NoData]
  /\ entry = [r \in Runs |-> NoEntry]
  /\ result = [r \in Runs |-> FALSE]
  /\ startKeys = [r \in Runs |-> {}]
  /\ evaluated = [r \in Runs |-> {}]
  /\ bought = [r \in Runs |-> <<>>]
  /\ tweets = <<>>
  /\ ranked = <<>>
  /\ rankerPc = "off"
  /\ notify = "none"

NextOverlap ==
  \E r \in Runs :
    \/ freeSlot(r) /\ runDailyOperations(r)
    \/ Step(r)
    \/ finishes(r)

SpecOverlap == InitOverlap /\ [][NextOverlap]_vars

\* The overlapping invocations that start with a position tracked: the ones in
\* which two sweeps can meet on the same entry from their first step on.
InitOverlapHeld == InitOverlap /\ trackedCoins # <<>>

SpecOverlapHeld == InitOverlapHeld /\ [][NextOverlap]_vars

\* The overlap start state short of the limit is a state of Spec.
OverlapStartReachable ==
  /\ trackedCoins = <<[coin |-> <<"A">>, buyPrice |-> 5,
                       targetMultiplier |-> TARGET_MULTIPLIER_MIN,
                       amount |-> AmountInSol]>>
  /\ dailyOperations = Limit - 1
  /\ numBuys = MAX_DAILY_OPERATIONS
  /\ numSells = MAX_DAILY_OPERATIONS - 1
  /\ \A r \in Runs : pc[r] = "idle"

\* The timer keeps firing and every pending response is eventually delivered.
SpecFair == Spec /\ WF_vars(Next)

\* ------------------------------------------------- notification failures
\* The promise of a bot.telegram.sendMessage call (lines 114, 122, 128, 134,
\* 140, 156, 164, 179, 189) is neither awaited nor given a catch handler;
\* notify = "pending" says that some such promise is unsettled.
\* The pending sends are fulfilled.
sendSettles ==
  /\ NoneRunning
  /\ notify = "pending"
  /\ notify' = "none"
  /\ UNCHANGED <<cycleVars, rankerVars>>

\* A pending send is rejected (network error, bad chat id).  No handler is
\* attached and the process installs no 'unhandledRejection' listener, so the
\* runtime decides: it only warns (Node before 15) or it raises the rejection
\* as an uncaught exception, which ends the process (Node 15 and later).
sendRejects ==
  /\ NoneRunning
  /\ notify = "pending"
  /\ notify' \in {"none", "unhandled"}
  /\ UNCHANGED <<cycleVars, rankerVars>>

NextSend == Next \/ sendSettles \/ sendRejects

SpecSend == Init /\ [][NextSend]_vars

\* -------------------------------------------------- the ranker on its own
\* analyzeTweets as a function of the feed: the search of line 62 returns
\* any feed of up to MaxPosts posts, or throws.
InitRanker ==
  /\ tweets \in SeqsUpTo(Posts, MaxPosts)
  /\ ranked = <<>>
  /\ rankerPc = "searching"
  /\ notify = "none"
  /\ trackedCoins = <<>>
  /\ dailyOperations = 0
  /\ pc = [r \in Runs |-> "idle"]
  /\ topCoin = [r \in Runs |-> NoCoin]
  /\ sellKey = [r \in Runs |-> NoCoin]
  /\ iter = [r \in Runs |-> 0]
  /\ coinData = [r \in Runs |-> NoData]
  /\ entry = [r \in Runs |-> NoEntry]
  /\ result = [r \in Runs |-> FALSE]
  /\ startKeys = [r \in Runs |-> {}]
  /\ evaluated = [r \in Runs |-> {}]
  /\ bought = [r \in Runs |-> <<>>]
  /\ numBuys = 0
  /\ numSells = 0

\* Lines 62-84: the search delivered the feed; the loop and the sort run.
ranks ==
  /\ rankerPc = "searching"
  /\ ranked' = analyzeTweets(tweets)
  /\ rankerPc' = "ranked"
  /\ UNCHANGED <<tweets, notify, cycleVars>>

\* Lines 85-88: the search throws; the catch block returns [].
searchFails ==
  /\ rankerPc = "searching"
  /\ ranked' = <<>>
  /\ rankerPc' = "failed"
  /\ UNCHANGED <<tweets, notify, cycleVars>>

NextRanker == ranks \/ searchFails

SpecRanker == InitRanker /\ [][NextRanker]_vars

TypeOK ==
  /\ dailyOperations \in Nat
  /\ \A i \in 1..Len(trackedCoins) : trackedCoins[i].buyPrice \in Prices
  /\ Cardinality(Keys(trackedCoins)) = Len(trackedCoins)
  /\ \A r \in Runs : iter[r] \in 0..Len(trackedCoins)

Range(f) == {f[i] : i \in DOMAIN f}

\* ------------------------------------------------------------------ claims

\* C1: the operation count never exceeds the limit, 2 x MAX_DAILY_OPERATIONS;
\* once the limit is reached no further buy or sell is recorded, the sells of
\* the sweep of the same cycle included.
C1_CountWithinLimit == dailyOperations <= Limit

\* C2: a buyCoin call for a symbol that already has a tracked position is
\* rejected: it returns false, the position is kept as it was and the count
\* is not incremented.
C2_ExistingPositionKept ==
  [][\A r \in Runs :
       (/\ pc[r] = "awaitBuyData"
        /\ pc'[r] = "buyCoinReturn"
        /\ has(trackedCoins, replaceDollar(topCoin[r])))
       => (/\ result'[r] = FALSE
           /\ trackedCoins' = trackedCoins
           /\ dailyOperations' = dailyOperations)]_vars

\* C3: a position is created only from a snapshot that satisfies the whole
\* admission test: the snapshot buyCoin read when it stored a position is
\* admitted, and every tracked entry price is > 0 and < the price ceiling.
C3_PositionFromAdmittedSnapshot ==
  /\ \A r \in Runs :
       (pc[r] = "buyCoinReturn" /\ result[r]) => admits(coinData[r])
  /\ \A i \in 1..Len(trackedCoins) :
       trackedCoins[i].buyPrice > 0 /\ trackedCoins[i].buyPrice < PriceCeiling

\* C4: for a tracked position and a fetched price, sellCoin returns true and
\* removes the position if and only if the price is >= entry price x target
\* multiplier (equality sells).
C4_SellIffTargetReached ==
  \A r \in Runs :
    (pc[r] = "sellCoinReturn" /\ entry[r] # NoEntry) =>
      /\ result[r] <=>
           (coinData[r].price >= entry[r].buyPrice * entry[r].targetMultiplier)
      /\ result[r] <=> ~has(trackedCoins, sellKey[r])

\* C4 witness: a sale at exactly entry price x multiplier, entry price not 0.
C4_Witness ==
  \E r \in Runs :
    /\ pc[r] = "sellCoinReturn"
    /\ entry[r] # NoEntry
    /\ entry[r].buyPrice > 0
    /\ coinData[r].price = entry[r].buyPrice * entry[r].targetMultiplier
    /\ result[r]
    /\ ~has(trackedCoins, sellKey[r])

\* C5: every run that gets past the limit check sweeps the tracked positions:
\* when it returns, whatever the ranking or the top candidate's lookup
\* delivered, each position tracked at its start has been evaluated for exit.
C5_EveryRunSweeps ==
  \A r \in Runs :
    pc[r] \in {"returnEmpty", "returnNoData", "returnSwept"} =>
      startKeys[r] \subseteq evaluated[r]

\* C6 as stated: a symbol bought by an invocation is not evaluated for sale
\* (so not sold) by the same invocation.
C6_BoughtNotEvaluatedSameCycle ==
  \A r \in Runs : Range(bought[r]) \cap evaluated[r] = {}

\* C6 amended: when invocations do not overlap, the sweep runs over the Map as
\* it is after the buy: an invocation that returns from its sweep has
\* evaluated the symbol it bought.
C6_BoughtEvaluatedSameCycle ==
  \A r \in Runs :
    pc[r] = "returnSwept" => Range(bought[r]) \subseteq evaluated[r]

\* C6 witness: a symbol is sold by the invocation that bought it.
C6_Witness ==
  \E r \in Runs :
    /\ pc[r] = "sellCoinReturn"
    /\ sellKey[r] \in Range(bought[r])
    /\ result[r]

\* C7: the budget resets: once the count has reached the limit it eventually
\* is below the limit again.
C7_BudgetResets == (dailyOperations >= Limit) ~> (dailyOperations < Limit)

\* C8: the count moves only by +1, exactly in the steps in which buyCoin stores
\* a position and returns true or sellCoin removes one and returns true; a
\* refused or failed attempt leaves it alone, so the count is the number of
\* successful buys plus the number of successful sells.
C8_CountIsBuysPlusSells ==
  [][/\ dailyOperations' \in {dailyOperations, dailyOperations + 1}
     /\ dailyOperations' = numBuys' + numSells'
     /\ \A r \in Runs :
          /\ (pc[r] = "awaitBuyData" /\ pc'[r] = "buyCoinReturn") =>
               /\ result'[r] <=> (dailyOperations' = dailyOperations + 1)
               /\ result'[r] <=> (numBuys' = numBuys + 1)
               /\ result'[r] =>
                    /\ has(trackedCoins', replaceDollar(topCoin[r]))
                    /\ get(trackedCoins', replaceDollar(topCoin[r])).buyPrice
                         = coinData'[r].price
               /\ ~result'[r] => trackedCoins' = trackedCoins
          /\ (pc[r] = "awaitSellData" /\ pc'[r] = "sellCoinReturn") =>
               /\ result'[r] <=> (dailyOperations' = dailyOperations + 1)
               /\ result'[r] <=> (numSells' = numSells + 1)
               /\ result'[r] =>
                    has(trackedCoins, sellKey[r]) /\ ~has(trackedCoins', sellKey[r])
               /\ ~result'[r] => trackedCoins' = trackedCoins
     /\ (\A r \in Runs : pc'[r] \notin {"buyCoinReturn", "sellCoinReturn"}
                         \/ pc'[r] = pc[r])
          => dailyOperations' = dailyOperations]_vars

\* C8 witness: after successful buys and sells, a buy has just been refused
\* with data present.
C8_Witness ==
  \E r \in Runs :
    /\ pc[r] = "buyCoinReturn"
    /\ ~result[r]
    /\ coinData[r] # NoData
    /\ numBuys >= 2
    /\ numSells >= 1
    /\ dailyOperations = numBuys + numSells

\* C9: when sellCoin holds, for want of data or because the fetched price is
\* below entry price x multiplier, the position and the count stay as they
\* were; missing data never sells.
C9_HoldChangesNothing ==
  [][\A r \in Runs :
       (/\ pc[r] = "awaitSellData"
        /\ pc'[r] = "sellCoinReturn"
        /\ \/ coinData'[r] = NoData
           \/ /\ entry'[r] # NoEntry
              /\ coinData'[r].price
                   < entry'[r].buyPrice * entry'[r].targetMultiplier)
       => (/\ result'[r] = FALSE
           /\ trackedCoins' = trackedCoins
           /\ dailyOperations' = dailyOperations)]_vars

\* C9 witness: sellCoin has held a tracked position for want of data.
C9_Witness ==
  \E r \in Runs :
    /\ pc[r] = "sellCoinReturn"
    /\ coinData[r] = NoData
    /\ ~result[r]
    /\ has(trackedCoins, sellKey[r])

\* C10: an invocation that starts with the count at or above the limit buys
\* nothing: it goes straight to its return, and neither the Map nor the count
\* changes on the way.
C10_NoBuyAtLimit ==
  [][\A r \in Runs :
       /\ (pc[r] = "idle" /\ pc'[r] # "idle" /\ dailyOperations >= Limit) =>
            /\ pc'[r] = "returnLimit"
            /\ trackedCoins' = trackedCoins
            /\ dailyOperations' = dailyOperations
       /\ (pc[r] = "returnLimit" /\ pc'[r] # "returnLimit") =>
            /\ pc'[r] \in {"idle", "done"}
            /\ bought[r] = <<>>
            /\ trackedCoins' = trackedCoins
            /\ dailyOperations' = dailyOperations]_vars

\* C10 witness: an invocation started at the limit is returning.
C10_Witness ==
  \E r \in Runs :
    /\ pc[r] = "returnLimit"
    /\ dailyOperations >= Limit
    /\ bought[r] = <<>>

\* C11: for the top candidate, a lookup without market data and a lookup whose
\* data fail the admission test continue alike: from the same Map either both
\* go on to evaluate the same tracked position or both return.
C11_LookupOutcomesContinueAlike ==
  \A r \in Runs :
    pc[r] = "awaitTopData" =>
      \A d \in CoinData \ {NoData} :
        ~admits(d) =>
          LET missing == afterLookup(trackedCoins, NoData)
              refused == afterLookup(trackedCoins, d)
          IN  /\ (missing.pc = "awaitSellData") = (refused.pc = "awaitSellData")
              /\ missing.coin = refused.coin

\* The posts of the feed that carry a deny-list term in some letter case.
DenyListed(t) ==
  \E term \in {<<"s", "c", "a", "m">>, <<"r", "u", "g">>} :
    \E i \in 1..(Len(t) - Len(term) + 1) :
      \A j \in 1..Len(term) : toLowerCase(t[i + j - 1]) = term[j]

\* The post holds a "$" directly followed by an uppercase letter.
HasSymbol(t) ==
  \E i \in 1..(Len(t) - 1) : t[i] = "$" /\ t[i + 1] \in UpperLetters

\* Positions of the feed whose post is neither negative nor deny-listed and
\* holds a symbol.
EligiblePosts ==
  {i \in 1..Len(tweets) :
     /\ tweets[i].sentiment >= 0
     /\ ~DenyListed(tweets[i].text)
     /\ HasSymbol(tweets[i].text)}

\* C12: the output of analyzeTweets holds no candidate of a post with a
\* negative score or with 'scam' or 'rug' in any letter case, whatever its
\* symbol and score; every other post that holds a '$' followed by uppercase
\* letters yields exactly one candidate, which carries the post's text and
\* score and a symbol of the post.
C12_RankerExcludesAndKeeps ==
  rankerPc = "ranked" =>
    /\ \A k \in 1..Len(ranked) :
         /\ ranked[k].sentiment >= 0
         /\ ~DenyListed(ranked[k].tweet)
         /\ ranked[k].coin[1] = "$"
         /\ Len(ranked[k].coin) >= 2
         /\ \A j \in 2..Len(ranked[k].coin) : ranked[k].coin[j] \in UpperLetters
         /\ includes(ranked[k].tweet, ranked[k].coin)
    /\ Len(ranked) = Cardinality(EligiblePosts)
    /\ \A p \in Posts :
         Cardinality({k \in 1..Len(ranked) :
                        ranked[k].tweet = p.text /\ ranked[k].sentiment = p.sentiment})
           = Cardinality({i \in EligiblePosts : tweets[i] = p})

\* A strongly positive post with "Scam" in mixed case was dropped and another
\* post of the same feed was kept.
C12_Witness ==
  /\ rankerPc = "ranked"
  /\ \E i \in 1..Len(tweets) :
       tweets[i] = [text |-> TextScam, sentiment |-> 2]
  /\ Len(ranked) = 1
  /\ ranked[1].coin = <<"$", "B", "A">>

\* C13: the output of analyzeTweets is sorted by descending score, candidates
\* of equal score keep the order of their posts, and so the first candidate,
\* the one runDailyOperations acts on, is the earliest one of maximal score.
C13_SortedDescendingStable ==
  rankerPc = "ranked" =>
    LET unsorted == potentialCoins(tweets)
    IN  /\ \A i, j \in 1..Len(ranked) :
             i < j => ranked[i].sentiment >= ranked[j].sentiment
        /\ \A v \in Sentiments :
             SelectSeq(ranked, LAMBDA c : c.sentiment = v)
               = SelectSeq(unsorted, LAMBDA c : c.sentiment = v)
        /\ unsorted # <<>> =>
             \E i \in 1..Len(unsorted) :
               /\ ranked[1] = unsorted[i]
               /\ \A j \in 1..Len(unsorted) :
                    unsorted[j].sentiment <= unsorted[i].sentiment
               /\ \A j \in 1..(i - 1) :
                    unsorted[j].sentiment < unsorted[i].sentiment

\* Two candidates of equal score for different symbols, ranked in post order.
C13_Witness ==
  /\ rankerPc = "ranked"
  /\ Len(tweets) = 2
  /\ Len(ranked) = 2
  /\ ranked[1].sentiment = ranked[2].sentiment
  /\ ranked[1].coin # ranked[2].coin
  /\ ranked[1].tweet = tweets[1].text

\* C14: one invocation of runDailyOperations records at most one buy, and
\* that buy is for the top-ranked candidate of its ranking: buyCoin is called
\* once, for coins[0], and the invocation then only sweeps.
C14_AtMostOneBuyPerRun ==
  \A r \in Runs :
    /\ Len(bought[r]) <= 1
    /\ (pc[r] = "buyCoinReturn" /\ result[r]) =>
          bought[r] = <<replaceDollar(topCoin[r])>>
    /\ (bought[r] # <<>>) => pc[r] \in {"buyCoinReturn", "awaitSellData",
                                        "sellCoinReturn", "returnSwept"}

\* A second invocation has bought its top candidate while a position of an
\* earlier invocation is tracked.
C14_Witness ==
  \E r \in Runs :
    /\ pc[r] = "buyCoinReturn"
    /\ result[r]
    /\ Len(bought[r]) = 1
    /\ Len(trackedCoins) = 2

\* C15: a rejected notification send is not propagated: it never ends the
\* process (nor the cycle that issued it), so the cycles go on deciding as
\* they would have with the send fulfilled.
C15_SendFailureNotPropagated == notify # "unhandled"

\* C16: every tracked position has targetMultiplier = TARGET_MULTIPLIER_MIN
\* (2), the value stored at its creation, at every moment it is tracked, and
\* so a multiplier within [TARGET_MULTIPLIER_MIN, TARGET_MULTIPLIER_MAX]; the
\* entry sellCoin reads carries the same value.
C16_MultiplierIsMinimum ==
  /\ \A i \in 1..Len(trackedCoins) :
       /\ trackedCoins[i].targetMultiplier = TARGET_MULTIPLIER_MIN
       /\ trackedCoins[i].targetMultiplier >= TARGET_MULTIPLIER_MIN
       /\ trackedCoins[i].targetMultiplier <= TARGET_MULTIPLIER_MAX
  /\ \A r \in Runs :
       entry[r] # NoEntry => entry[r].targetMultiplier = TARGET_MULTIPLIER_MIN

\* A position created in an earlier invocation has been evaluated by sellCoin
\* and is held.
C16_Witness ==
  \E r \in Runs :
    /\ pc[r] = "sellCoinReturn"
    /\ ~result[r]
    /\ entry[r] # NoEntry
    /\ bought[r] = <<>>
    /\ has(trackedCoins, sellKey[r])
    /\ get(trackedCoins, sellKey[r]).targetMultiplier = TARGET_MULTIPLIER_MIN

\* C17: in every interleaving of invocations, a buy is recorded only while
\* the operation count is below the limit at the moment buyCoin stores the
\* position.
C17_BuyOnlyBelowLimit ==
  [][\A r \in Runs :
       (pc[r] = "awaitBuyData" /\ pc'[r] = "buyCoinReturn" /\ result'[r])
       => dailyOperations < Limit]_vars

\* C18: a position is closed and counted at most once, also when invocations
\* overlap: a sellCoin that resumes for a symbol whose position another
\* invocation has sold meanwhile finds no position, returns false and leaves
\* the Map and the count as they are; a sellCoin that sells removes the
\* position and counts one operation; and the positions sold never outnumber
\* the positions created.
C18_PositionClosedOnce ==
  [][\A r \in Runs :
       (pc[r] = "awaitSellData" /\ pc'[r] = "sellCoinReturn") =>
         /\ ~has(trackedCoins, sellKey[r]) =>
              /\ ~result'[r]
              /\ trackedCoins' = trackedCoins
              /\ dailyOperations' = dailyOperations
              /\ numSells' = numSells
         /\ result'[r] =>
              /\ has(trackedCoins, sellKey[r])
              /\ ~has(trackedCoins', sellKey[r])
              /\ Len(trackedCoins') = Len(trackedCoins) - 1
              /\ dailyOperations' = dailyOperations + 1
              /\ numSells' = numSells + 1
         /\ numSells' + Len(trackedCoins') <= numBuys']_vars

\* Two invocations were suspended in sellCoin for the same symbol; one has sold
\* it, and the other has resumed with a price at target and found no position.
C18_Witness ==
  \E r \in Runs :
    /\ pc[r] = "sellCoinReturn"
    /\ coinData[r] # NoData
    /\ coinData[r].price = 20
    /\ entry[r] = NoEntry
    /\ ~result[r]
    /\ ~has(trackedCoins, sellKey[r])
    /\ \E q \in Runs \ {r} : sellKey[r] \in evaluated[q]
    /\ numSells >= 1

====
